---- MODULE Spec2Model ----
(***************************************************************************)
(* Model of the rebite ByteString view (src/src/bytes.rs), its index and   *)
(* byte iterators (src/src/bytes_iter.rs) and the leaf helpers             *)
(* (src/src/util.rs).                                                      *)
(*                                                                         *)
(* Buffers are sequences of u8 (1-based here, 0-based in the source: the   *)
(* byte at source index ix is bytes[ix + 1]).  Two views exist: `bytes`    *)
(* with flag `rev` (self) and `other` with flag `orev` (the right-hand     *)
(* operand of ==, &=, |=, ^=).                                             *)
(***************************************************************************)
EXTENDS Integers, Sequences, FiniteSets, TLC

VARIABLES
    bytes,              \* ByteString.bytes of self
    rev,                \* ByteString.interpret_reverse_endian of self
    other,              \* ByteString.bytes of the right-hand view
    orev,               \* interpret_reverse_endian of the right-hand view
    pc,                 \* position of the caller: ready / inside shl_assign / iterating / panicked
    shifted_out_bytes,  \* local of shl_assign
    shift_per_byte,     \* local of shl_assign
    lastOp,             \* name of the last mutating call
    lastArg,            \* its integer argument (rhs, count, value)
    preBytes,           \* self.bytes when the last mutating call started
    preRev,             \* self flag when the last mutating call started
    preOther,           \* other.bytes when the last mutating call started
    preORev,            \* other flag when the last mutating call started
    midBytes,           \* self.bytes after the carry pass of shl_assign
    query,              \* last non-mutating call and its result
    nops,               \* number of mutating calls made so far
    it,                 \* the Index of the live BytesIter / BytesIterMut
    itMut,              \* TRUE: BytesIterMut, FALSE: BytesIter
    yielded,            \* positions returned so far by the live iterator
    itLast,             \* last iterator call: name, len before it, returned position
    noneCalls           \* calls on the live iterator that returned None

vars == <<bytes, rev, other, orev, pc, shifted_out_bytes, shift_per_byte,
          lastOp, lastArg, preBytes, preRev, preOther, preORev, midBytes, query, nops,
          it, itMut, yielded, itLast, noneCalls>>

shlVars  == <<shifted_out_bytes, shift_per_byte, midBytes>>
iterVars == <<it, itMut, yielded, itLast, noneCalls>>

----------------------------------------------------------------------------
(* Bounds *)

MaxLen == 3         \* longest self buffer
MaxOtherLen == 2    \* longest right-hand buffer
MaxOps == 1         \* mutating calls per behaviour
MaxOver == 1        \* how far rhs / count may exceed bit_len / byte_len
MaxNone == 2        \* calls made on an exhausted iterator

ByteVals  == {0, 1, 150}   \* initial contents of self
OtherVals == {1, 150}           \* contents of the right-hand view
FillVals  == {0, 7, 255}        \* arguments of set_bytes_with_value

None == -1          \* Option::None of an index

----------------------------------------------------------------------------
(* u8 arithmetic *)

RECURSIVE Pow2(_)
Pow2(n) == IF n = 0 THEN 1 ELSE 2 * Pow2(n - 1)

Bit(a, k) == (a \div Pow2(k)) % 2

RECURSIVE And8From(_, _, _)
And8From(a, b, k) ==
    IF k > 7 THEN 0 ELSE Pow2(k) * (Bit(a, k) * Bit(b, k)) + And8From(a, b, k + 1)
And8(a, b) == And8From(a, b, 0)

RECURSIVE Or8From(_, _, _)
Or8From(a, b, k) ==
    IF k > 7 THEN 0
    ELSE Pow2(k) * (IF Bit(a, k) + Bit(b, k) > 0 THEN 1 ELSE 0) + Or8From(a, b, k + 1)
Or8(a, b) == Or8From(a, b, 0)

RECURSIVE Xor8From(_, _, _)
Xor8From(a, b, k) ==
    IF k > 7 THEN 0 ELSE Pow2(k) * ((Bit(a, k) + Bit(b, k)) % 2) + Xor8From(a, b, k + 1)
Xor8(a, b) == Xor8From(a, b, 0)

Shl8(a, s) == (a * Pow2(s)) % 256
Shr8(a, s) == a \div Pow2(s)

----------------------------------------------------------------------------
(* util.rs *)

\* variant of swap_bytes without the third XOR
SwapBytes_TwoXors(a, b) ==
    LET a1 == Xor8(a, b)
        b1 == Xor8(b, a1)
    IN  <<a1, b1>>

\* swap_bytes: the three XOR assignments; returns <<a, b>> after the call
SwapBytes(a, b) ==
    LET a1 == Xor8(a, b)
        b1 == Xor8(b, a1)
        a2 == Xor8(a1, b1)
    IN  <<a2, b1>>

\* variant of set_bytes that leaves the first byte alone
SetBytes_SkipFirst(b, value) == [i \in 1..Len(b) |-> IF i = 1 THEN b[i] ELSE value]

\* set_bytes: every byte := value
SetBytes(b, value) == [i \in 1..Len(b) |-> value]

----------------------------------------------------------------------------
(* bytes_iter.rs: Index over Range<usize> / Rev<Range<usize>> *)

NoIter == [variant |-> "NoIter", start |-> 0, end |-> 0]

IndexNew(n, should_iter_reverse) ==
    [variant |-> IF should_iter_reverse THEN "RevIter" ELSE "Iter",
     start |-> 0, end |-> n]

\* variant of Range::next that does not test start < end
RangeNext_Unchecked(ix) ==
    [ret |-> ix.start, ix |-> [ix EXCEPT !.start = @ + 1]]

\* Range::next
RangeNext(ix) ==
    IF ix.start < ix.end
    THEN [ret |-> ix.start, ix |-> [ix EXCEPT !.start = @ + 1]]
    ELSE [ret |-> None, ix |-> ix]

\* variant of Range::next_back that yields end instead of end - 1
RangeNextBack_OffByOne(ix) ==
    IF ix.start < ix.end
    THEN [ret |-> ix.end, ix |-> [ix EXCEPT !.end = @ - 1]]
    ELSE [ret |-> None, ix |-> ix]

\* Range::next_back
RangeNextBack(ix) ==
    IF ix.start < ix.end
    THEN [ret |-> ix.end - 1, ix |-> [ix EXCEPT !.end = @ - 1]]
    ELSE [ret |-> None, ix |-> ix]

\* Index::next: Iter(it) => it.next(), RevIter(it) => it.next() of Rev
IndexNext(ix) ==
    IF ix.variant = "Iter" THEN RangeNext(ix) ELSE RangeNextBack(ix)

\* Index::next_back
IndexNextBack(ix) ==
    IF ix.variant = "Iter" THEN RangeNextBack(ix) ELSE RangeNext(ix)

\* Index::size_hint (exact; also ExactSizeIterator::len)
IndexSizeHint(ix) == IF ix.start < ix.end THEN ix.end - ix.start ELSE 0

----------------------------------------------------------------------------
(* bytes.rs: pure parts of the operations *)

\* ByteString::is_zero
IsZeroOf(b) == \A i \in 1..Len(b) : b[i] = 0

\* Iterator::eq over two BytesIter
RECURSIVE IterEq(_, _, _, _)
IterEq(a, ia, b, ib) ==
    LET ra == IndexNext(ia)
        rb == IndexNext(ib)
    IN  IF ra.ret = None THEN rb.ret = None
        ELSE IF rb.ret = None THEN FALSE
        ELSE IF a[ra.ret + 1] # b[rb.ret + 1] THEN FALSE
        ELSE IterEq(a, ra.ix, b, rb.ix)

\* variant of eq that reads both operands with the left operand's flag
ByteStringEq_SharedFlag(a, aflag, b, bflag) ==
    LET eq_len == Len(a) = Len(b)
        eq_mem == IterEq(a, IndexNew(Len(a), aflag), b, IndexNew(Len(b), aflag))
    IN  eq_len /\ eq_mem

\* PartialEq::eq
ByteStringEq(a, aflag, b, bflag) ==
    LET eq_len == Len(a) = Len(b)
        eq_mem == IterEq(a, IndexNew(Len(a), aflag), b, IndexNew(Len(b), bflag))
    IN  eq_len /\ eq_mem

ApplyOp(op, x, y) ==
    CASE op = "and" -> And8(x, y)
      [] op = "or"  -> Or8(x, y)
      [] op = "xor" -> Xor8(x, y)

\* self.iter_mut().zip(rhs.iter()) and the loop body *a op= *b
RECURSIVE ZipAssign(_, _, _, _, _)
ZipAssign(op, a, ia, b, ib) ==
    LET ra == IndexNext(ia)
    IN  IF ra.ret = None THEN a
        ELSE LET rb == IndexNext(ib)
             IN  IF rb.ret = None THEN a
                 ELSE ZipAssign(op,
                                [a EXCEPT ![ra.ret + 1] = ApplyOp(op, a[ra.ret + 1], b[rb.ret + 1])],
                                ra.ix, b, rb.ix)

\* variant that reads the right-hand operand in physical order
BitOpAssign_RhsPhysical(op, a, aflag, b, bflag) ==
    ZipAssign(op, a, IndexNew(Len(a), aflag), b, IndexNew(Len(b), FALSE))

BitOpAssign(op, a, aflag, b, bflag) ==
    ZipAssign(op, a, IndexNew(Len(a), aflag), b, IndexNew(Len(b), bflag))

\* reverse_byte_endianness: a = [0, mid), b = [mid, N); zip(a, b.rev()) and swap
RECURSIVE SwapLoop(_, _, _)
SwapLoop(b, i, mid) ==
    IF i >= mid THEN b
    ELSE LET x == i + 1
             y == Len(b) - i
             s == SwapBytes(b[x], b[y])
         IN  SwapLoop([b EXCEPT ![x] = s[1], ![y] = s[2]], i + 1, mid)

ReverseBytes(b) ==
    LET count == Len(b)
        mid == (count - (count % 2)) \div 2
    IN  SwapLoop(b, 0, mid)

\* slice::rotate_left(mid) / rotate_right(k): both panic when the count exceeds len
RotatePanics(b, count) == count > Len(b)
RotateLeft(b, mid) == [i \in 1..Len(b) |-> b[((i - 1 + mid) % Len(b)) + 1]]
RotateRight(b, k) == [i \in 1..Len(b) |-> b[((i - 1 + Len(b) - k) % Len(b)) + 1]]

\* variant of rotl_bytes that always rotates left
RotlBytes_IgnoreFlag(b, flag, count) == RotateLeft(b, count)

\* ByteString::rotl_bytes (for a count that does not panic)
RotlBytes(b, flag, count) ==
    IF flag THEN RotateRight(b, count) ELSE RotateLeft(b, count)

\* shl_assign, the carry loop over self.iter_mut().skip(n).rev():
\* Skip::next_back yields inner.next_back() while inner.len() - n > 0
RECURSIVE CarryLoop(_, _, _, _, _)
CarryLoop(b, ix, n, per_byte, carry_bits) ==
    IF IndexSizeHint(ix) - n > 0
    THEN LET r == IndexNextBack(ix)
             byte == b[r.ret + 1]
             tmp_carry_bits == Shr8(byte, 8 - per_byte)
             shifted == Or8(Shl8(byte, per_byte), carry_bits)
         IN  CarryLoop([b EXCEPT ![r.ret + 1] = shifted], r.ix, n, per_byte, tmp_carry_bits)
    ELSE b

\* variant of the carry loop without .rev(): front to back after the skip
RECURSIVE SkipN(_, _)
SkipN(ix, n) == IF n = 0 THEN ix ELSE SkipN(IndexNext(ix).ix, n - 1)

RECURSIVE CarryLoopFwd(_, _, _, _)
CarryLoopFwd(b, ix, per_byte, carry_bits) ==
    LET r == IndexNext(ix)
    IN  IF r.ret = None THEN b
        ELSE LET byte == b[r.ret + 1]
                 tmp_carry_bits == Shr8(byte, 8 - per_byte)
                 shifted == Or8(Shl8(byte, per_byte), carry_bits)
             IN  CarryLoopFwd([b EXCEPT ![r.ret + 1] = shifted], r.ix, per_byte, tmp_carry_bits)

CarryPass_NoRev(b, flag, n, per_byte) ==
    IF per_byte > 0 THEN CarryLoopFwd(b, SkipN(IndexNew(Len(b), flag), n), per_byte, 0) ELSE b

CarryPass(b, flag, n, per_byte) ==
    IF per_byte > 0 THEN CarryLoop(b, IndexNew(Len(b), flag), n, per_byte, 0) ELSE b

\* shl_assign, the loop over self.iter_mut().take(n): Take::next yields n times
RECURSIVE ZeroLoop(_, _, _)
ZeroLoop(b, ix, n) ==
    IF n = 0 THEN b
    ELSE LET r == IndexNext(ix)
         IN  IF r.ret = None THEN b
             ELSE ZeroLoop([b EXCEPT ![r.ret + 1] = 0], r.ix, n - 1)

\* variant of the zeroing loop that walks the buffer in physical order
ZeroizeTake_IgnoreFlag(b, flag, n) == ZeroLoop(b, IndexNew(Len(b), FALSE), n)

ZeroizeTake(b, flag, n) == ZeroLoop(b, IndexNew(Len(b), flag), n)

----------------------------------------------------------------------------
(* State after construction *)

Buffers(vals, n) == UNION {[1..k -> vals] : k \in 0..n}

NoQuery == [op |-> "none", ret |-> FALSE]
NoCall  == [call |-> "none", len |-> 0, ret |-> None]

\* ByteString::new: flag false; nothing called yet
InitGhost ==
    /\ rev = FALSE
    /\ orev = FALSE
    /\ pc = "ready"
    /\ shifted_out_bytes = 0
    /\ shift_per_byte = 0
    /\ lastOp = "new"
    /\ lastArg = 0
    /\ preBytes = bytes
    /\ preRev = FALSE
    /\ preOther = other
    /\ preORev = FALSE
    /\ midBytes = <<>>
    /\ query = NoQuery
    /\ nops = 0
    /\ it = NoIter
    /\ itMut = FALSE
    /\ yielded = <<>>
    /\ itLast = NoCall
    /\ noneCalls = 0

\* one view over any buffer
InitOne ==
    /\ bytes \in Buffers(ByteVals, MaxLen)
    /\ other = <<>>
    /\ InitGhost

\* two views over any two buffers
InitTwo ==
    /\ bytes \in Buffers(ByteVals, MaxLen)
    /\ other \in Buffers(OtherVals, MaxOtherLen)
    /\ InitGhost

----------------------------------------------------------------------------
(* Operations of ByteString *)

CanMutate == pc = "ready" /\ nops < MaxOps

\* bookkeeping of a mutating call
Log(op, arg) ==
    /\ lastOp' = op
    /\ lastArg' = arg
    /\ preBytes' = bytes
    /\ preRev' = rev
    /\ preOther' = other
    /\ preORev' = orev
    /\ query' = NoQuery
    /\ nops' = nops + 1

\* interpret_reverse_endian on self
InterpretReverseEndian ==
    /\ pc = "ready"
    /\ rev' = ~rev
    /\ lastOp' = "interpret_reverse_endian"
    /\ lastArg' = 0
    /\ preBytes' = bytes
    /\ preRev' = rev
    /\ preOther' = other
    /\ preORev' = orev
    /\ query' = NoQuery
    /\ UNCHANGED <<bytes, other, orev, pc, nops>>
    /\ UNCHANGED shlVars
    /\ UNCHANGED iterVars

\* interpret_reverse_endian on the right-hand view
InterpretReverseEndianOther ==
    /\ pc = "ready"
    /\ orev' = ~orev
    /\ lastOp' = "interpret_reverse_endian_other"
    /\ lastArg' = 0
    /\ preBytes' = bytes
    /\ preRev' = rev
    /\ preOther' = other
    /\ preORev' = orev
    /\ query' = NoQuery
    /\ UNCHANGED <<bytes, rev, other, pc, nops>>
    /\ UNCHANGED shlVars
    /\ UNCHANGED iterVars

\* set_bytes_with_value(value)
SetBytesWithValue ==
    /\ CanMutate
    /\ \E value \in FillVals :
         /\ bytes' = SetBytes(bytes, value)
         /\ Log("set_bytes_with_value", value)
    /\ UNCHANGED <<rev, other, orev, pc>>
    /\ UNCHANGED shlVars
    /\ UNCHANGED iterVars

\* set_zero
SetZero ==
    /\ CanMutate
    /\ bytes' = SetBytes(bytes, 0)
    /\ Log("set_zero", 0)
    /\ UNCHANGED <<rev, other, orev, pc>>
    /\ UNCHANGED shlVars
    /\ UNCHANGED iterVars

\* is_zero (query)
IsZero ==
    /\ pc = "ready"
    /\ query' = [op |-> "is_zero", ret |-> IsZeroOf(bytes)]
    /\ UNCHANGED <<bytes, rev, other, orev, pc, lastOp, lastArg, preBytes, preRev, preOther, preORev, nops>>
    /\ UNCHANGED shlVars
    /\ UNCHANGED iterVars

\* self == other (query)
Eq ==
    /\ pc = "ready"
    /\ query' = [op |-> "eq", ret |-> ByteStringEq(bytes, rev, other, orev)]
    /\ UNCHANGED <<bytes, rev, other, orev, pc, lastOp, lastArg, preBytes, preRev, preOther, preORev, nops>>
    /\ UNCHANGED shlVars
    /\ UNCHANGED iterVars

\* reverse_byte_endianness
ReverseByteEndianness ==
    /\ CanMutate
    /\ bytes' = ReverseBytes(bytes)
    /\ Log("reverse_byte_endianness", 0)
    /\ UNCHANGED <<rev, other, orev, pc>>
    /\ UNCHANGED shlVars
    /\ UNCHANGED iterVars

\* self &= &other
BitAndAssign ==
    /\ CanMutate
    /\ bytes' = BitOpAssign("and", bytes, rev, other, orev)
    /\ Log("and", 0)
    /\ UNCHANGED <<rev, other, orev, pc>>
    /\ UNCHANGED shlVars
    /\ UNCHANGED iterVars

\* self ^= &other
BitXorAssign ==
    /\ CanMutate
    /\ bytes' = BitOpAssign("xor", bytes, rev, other, orev)
    /\ Log("xor", 0)
    /\ UNCHANGED <<rev, other, orev, pc>>
    /\ UNCHANGED shlVars
    /\ UNCHANGED iterVars

\* self |= &other
BitOrAssign ==
    /\ CanMutate
    /\ bytes' = BitOpAssign("or", bytes, rev, other, orev)
    /\ Log("or", 0)
    /\ UNCHANGED <<rev, other, orev, pc>>
    /\ UNCHANGED shlVars
    /\ UNCHANGED iterVars

\* rotl_bytes(count): the slice rotation panics when count > len
RotlBytesCall ==
    /\ CanMutate
    /\ \E count \in 0..(Len(bytes) + MaxOver) :
         /\ IF RotatePanics(bytes, count)
            THEN /\ pc' = "panicked"
                 /\ bytes' = bytes
            ELSE /\ pc' = "ready"
                 /\ bytes' = RotlBytes(bytes, rev, count)
         /\ Log("rotl_bytes", count)
    /\ UNCHANGED <<rev, other, orev>>
    /\ UNCHANGED shlVars
    /\ UNCHANGED iterVars

\* self <<= rhs, up to and including the carry pass
ShlAssign ==
    /\ CanMutate
    /\ \E rhs \in 0..(8 * Len(bytes) + MaxOver) :
         LET bit_len == 8 * Len(bytes)
         IN  /\ Log("shl", rhs)
             /\ IF IsZeroOf(bytes) \/ rhs = 0
                THEN /\ bytes' = bytes
                     /\ pc' = "ready"
                     /\ UNCHANGED shlVars
                ELSE IF rhs >= bit_len
                THEN /\ bytes' = SetBytes(bytes, 0)
                     /\ pc' = "ready"
                     /\ UNCHANGED shlVars
                ELSE LET shift_count == rhs % bit_len
                     IN  /\ shift_per_byte' = shift_count % 8
                         /\ shifted_out_bytes' = shift_count \div 8
                         /\ bytes' = CarryPass(bytes, rev, shift_count \div 8, shift_count % 8)
                         /\ midBytes' = bytes'
                         /\ pc' = "shl_zeroize"
    /\ UNCHANGED <<rev, other, orev>>
    /\ UNCHANGED iterVars

\* shl_assign: "Zeroize shifted out bytes"
ShlZeroize ==
    /\ pc = "shl_zeroize"
    /\ bytes' = ZeroizeTake(bytes, rev, shifted_out_bytes)
    /\ pc' = "shl_rotate"
    /\ UNCHANGED <<rev, other, orev, lastOp, lastArg, preBytes, preRev, preOther, preORev, query, nops>>
    /\ UNCHANGED shlVars
    /\ UNCHANGED iterVars

\* shl_assign: "Rotate bytes in place"
ShlRotate ==
    /\ pc = "shl_rotate"
    /\ IF RotatePanics(bytes, shifted_out_bytes)
       THEN /\ pc' = "panicked"
            /\ bytes' = bytes
       ELSE /\ pc' = "ready"
            /\ bytes' = RotlBytes(bytes, rev, shifted_out_bytes)
    /\ UNCHANGED <<rev, other, orev, lastOp, lastArg, preBytes, preRev, preOther, preORev, query, nops>>
    /\ UNCHANGED shlVars
    /\ UNCHANGED iterVars

----------------------------------------------------------------------------
(* Operations of BytesIter / BytesIterMut *)

notIter == <<bytes, rev, other, orev, shifted_out_bytes, shift_per_byte,
             lastOp, lastArg, preBytes, preRev, preOther, preORev, midBytes, query, nops>>

\* ByteString::iter -> BytesIter::new(self.bytes, self.interpret_reverse_endian)
IterNew ==
    /\ pc = "ready"
    /\ pc' = "iterating"
    /\ it' = IndexNew(Len(bytes), rev)
    /\ itMut' = FALSE
    /\ yielded' = <<>>
    /\ itLast' = NoCall
    /\ noneCalls' = 0
    /\ UNCHANGED notIter

\* ByteString::iter_mut -> BytesIterMut::new
IterMutNew ==
    /\ pc = "ready"
    /\ pc' = "iterating"
    /\ it' = IndexNew(Len(bytes), rev)
    /\ itMut' = TRUE
    /\ yielded' = <<>>
    /\ itLast' = NoCall
    /\ noneCalls' = 0
    /\ UNCHANGED notIter

\* the effect of one call whose index step is r
IterStep(call, r) ==
    /\ itLast' = [call |-> call, len |-> IndexSizeHint(it), ret |-> r.ret]
    /\ it' = r.ix
    /\ IF r.ret = None
       THEN /\ noneCalls < MaxNone
            /\ noneCalls' = noneCalls + 1
            /\ yielded' = yielded
            /\ pc' = pc
       ELSE /\ noneCalls' = noneCalls
            /\ yielded' = Append(yielded, r.ret)
            \* &self.bytes[ix] is bounds-checked; ptr.add(ix) is only defined in bounds
            /\ pc' = IF r.ret < Len(bytes) THEN pc ELSE "panicked"
    /\ UNCHANGED itMut
    /\ UNCHANGED notIter

\* BytesIter::next
BytesIterNext ==
    /\ pc = "iterating" /\ ~itMut
    /\ IterStep("next", IndexNext(it))

\* BytesIter::next_back
BytesIterNextBack ==
    /\ pc = "iterating" /\ ~itMut
    /\ IterStep("next_back", IndexNextBack(it))

\* BytesIterMut::next
BytesIterMutNext ==
    /\ pc = "iterating" /\ itMut
    /\ IterStep("next", IndexNext(it))

\* BytesIterMut::next_back
BytesIterMutNextBack ==
    /\ pc = "iterating" /\ itMut
    /\ IterStep("next_back", IndexNextBack(it))

----------------------------------------------------------------------------
(* Specifications *)

\* one view: shift and rotation
NextShift ==
    \/ InterpretReverseEndian
    \/ ShlAssign
    \/ ShlZeroize
    \/ ShlRotate
    \/ RotlBytesCall

SpecShift == InitOne /\ [][NextShift]_vars

\* one view: fill, zero test and physical mirror
NextFill ==
    \/ InterpretReverseEndian
    \/ SetBytesWithValue
    \/ SetZero
    \/ IsZero
    \/ ReverseByteEndianness

SpecFill == InitOne /\ [][NextFill]_vars

\* two views: comparison and the boolean operators
NextPair ==
    \/ InterpretReverseEndian
    \/ InterpretReverseEndianOther
    \/ Eq
    \/ BitAndAssign
    \/ BitXorAssign
    \/ BitOrAssign

SpecPair == InitTwo /\ [][NextPair]_vars

\* one view and its reader / writer
NextIter ==
    \/ InterpretReverseEndian
    \/ IterNew
    \/ IterMutNew
    \/ BytesIterNext
    \/ BytesIterNextBack
    \/ BytesIterMutNext
    \/ BytesIterMutNextBack

SpecIter == InitOne /\ [][NextIter]_vars

----------------------------------------------------------------------------
(* Vocabulary of the properties *)

\* byte at logical position i (0-based) of a view: physical order when the
\* flag is false, reversed physical order when it is true
LogicalAt(b, flag, i) == IF flag THEN b[Len(b) - i] ELSE b[i + 1]

\* bit p of a view read as one big-endian integer, p = 0 the most significant
LogicalBit(b, flag, p) == Bit(LogicalAt(b, flag, p \div 8), 7 - (p % 8))

\* the unsigned integer whose big-endian digits are the logical bytes
RECURSIVE ValueFrom(_, _, _)
ValueFrom(b, flag, i) ==
    IF i >= Len(b) THEN 0
    ELSE LogicalAt(b, flag, i) * Pow2(8 * (Len(b) - 1 - i)) + ValueFrom(b, flag, i + 1)
Value(b, flag) == ValueFrom(b, flag, 0)

Min(x, y) == IF x < y THEN x ELSE y

IsPalindrome(b) == \A i \in 1..Len(b) : b[i] = b[Len(b) + 1 - i]

----------------------------------------------------------------------------
(* C1 *)

\* C1: after a completed `view <<= rhs` the logical byte sequence is the
\* big-endian encoding of (V * 2^rhs) mod 2^bit_len, V the old value: bit p
\* of the result is old bit p + rhs, or 0 when p + rhs >= bit_len (and, for
\* views of at most 24 bits, the value itself is
\* (V mod 2^(bit_len - rhs)) * 2^rhs); rhs = 0 leaves the buffer unchanged,
\* rhs >= bit_len leaves it all zero, byte_len and the flag are unchanged.
C1_ShlIsBigEndianShift ==
    (lastOp = "shl" /\ pc = "ready") =>
        LET bit_len == 8 * Len(preBytes)
            rhs == lastArg
        IN  /\ Len(bytes) = Len(preBytes)
            /\ rev = preRev
            /\ \A p \in 0..(bit_len - 1) :
                 LogicalBit(bytes, rev, p) =
                    IF p + rhs < bit_len THEN LogicalBit(preBytes, preRev, p + rhs) ELSE 0
            /\ (bit_len <= 24 /\ rhs < bit_len) =>
                 Value(bytes, rev) = (Value(preBytes, preRev) % Pow2(bit_len - rhs)) * Pow2(rhs)
            /\ rhs = 0 => bytes = preBytes
            /\ rhs >= bit_len => \A i \in 1..Len(bytes) : bytes[i] = 0

\* a 3-byte reversed view shifted by one whole byte and four bits
C1_Witness ==
    /\ lastOp = "shl" /\ pc = "ready"
    /\ preRev /\ Len(preBytes) = 3 /\ lastArg = 12
    /\ preBytes = <<150, 1, 150>>
    /\ bytes = <<0, 96, 25>>

----------------------------------------------------------------------------
(* C2 *)

\* C2: `a == b` is true iff the lengths match and the logical sequences, each
\* read with its own flag, are element-wise equal; over equal buffers with
\* opposite flags the views are equal exactly when the buffer is a palindrome.
C2_EqIffLogicalEqual ==
    query.op = "eq" =>
        /\ query.ret <=>
             /\ Len(bytes) = Len(other)
             /\ \A i \in 0..(Len(bytes) - 1) :
                  LogicalAt(bytes, rev, i) = LogicalAt(other, orev, i)
        /\ (bytes = other /\ rev # orev) => (query.ret <=> IsPalindrome(bytes))

\* two different buffers with opposite flags that compare equal
C2_Witness ==
    /\ query.op = "eq" /\ query.ret
    /\ rev # orev
    /\ bytes = <<1, 150>> /\ other = <<150, 1>>

----------------------------------------------------------------------------
(* C3 *)

\* C3: after `self op= rhs` (op in AND, OR, XOR) logical byte i of self is
\* (old logical byte i of self) op (logical byte i of rhs) for i < min(N, M)
\* and unchanged for i >= min(N, M); rhs, both flags and both lengths are
\* unchanged and the call does not fail when N # M.
C3_BitOpPairsLogicalPrefix ==
    lastOp \in {"and", "or", "xor"} =>
        /\ pc = "ready"
        /\ Len(bytes) = Len(preBytes)
        /\ rev = preRev
        /\ other = preOther
        /\ orev = preORev
        /\ \A i \in 0..(Len(bytes) - 1) :
             LogicalAt(bytes, rev, i) =
                IF i < Min(Len(preBytes), Len(other))
                THEN ApplyOp(lastOp, LogicalAt(preBytes, preRev, i), LogicalAt(other, orev, i))
                ELSE LogicalAt(preBytes, preRev, i)

\* a reversed 3-byte view xor-ed with a reversed 2-byte view
C3_Witness ==
    /\ lastOp = "xor"
    /\ preRev /\ orev
    /\ preBytes = <<0, 150, 1>> /\ other = <<1, 150>>
    /\ bytes = <<0, 151, 151>>

----------------------------------------------------------------------------
(* C4 *)

\* C4: rotl_bytes(count) completes without failure for every buffer length,
\* either flag and every count >= 0, count > N included, and leaves a buffer
\* of the same length.
C4_RotlBytesTotal ==
    lastOp = "rotl_bytes" => (pc # "panicked" /\ Len(bytes) = Len(preBytes))

----------------------------------------------------------------------------
(* C5 *)

\* C5 as stated: after set_bytes_with_value(v) every physical byte equals v
\* and is_zero() returns true iff v = 0, for every N >= 0.
C5_IsZeroIffFillZero ==
    lastOp = "set_bytes_with_value" =>
        /\ \A i \in 1..Len(bytes) : bytes[i] = lastArg
        /\ query.op = "is_zero" => (query.ret <=> lastArg = 0)

\* C5 amended: after set_bytes_with_value(v) every physical byte equals v and
\* is_zero() returns true iff v = 0 or the buffer is empty.
C5_IsZeroIffFillZeroOrEmpty ==
    lastOp = "set_bytes_with_value" =>
        /\ Len(bytes) = Len(preBytes)
        /\ \A i \in 1..Len(bytes) : bytes[i] = lastArg
        /\ query.op = "is_zero" => (query.ret <=> (lastArg = 0 \/ Len(bytes) = 0))

\* a non-zero buffer filled with a non-zero value, then asked is_zero
C5_Witness ==
    /\ lastOp = "set_bytes_with_value" /\ lastArg = 7
    /\ preBytes = <<0, 150, 0>>
    /\ query.op = "is_zero" /\ ~query.ret

----------------------------------------------------------------------------
(* C6 *)

\* C6: under every interleaving of next and next_back on a reader or writer
\* over a buffer of length N, every returned position lies in [0, N), no
\* position is returned twice, and once the sequence is exhausted exactly the
\* N positions of [0, N) have been returned.
C6_DisjointPermutation ==
    pc \in {"iterating", "panicked"} =>
        /\ pc # "panicked"
        /\ \A k \in 1..Len(yielded) : yielded[k] \in 0..(Len(bytes) - 1)
        /\ \A j, k \in 1..Len(yielded) : yielded[j] = yielded[k] => j = k
        /\ (IndexSizeHint(it) = 0 \/ (itLast.ret = None /\ itLast.call # "none")) =>
             /\ Len(yielded) = Len(bytes)
             /\ {yielded[k] : k \in 1..Len(yielded)} = 0..(Len(bytes) - 1)

\* a writer over a reversed 3-byte view drained by next, next_back, next
C6_Witness ==
    /\ pc = "iterating" /\ itMut
    /\ it.variant = "RevIter"
    /\ yielded = <<2, 0, 1>>
    /\ itLast.call = "next"

----------------------------------------------------------------------------
(* C7 *)

\* C7: after any sequence of next / next_back of which k returned an element
\* the reported length is N - k, never below 0; once it is 0 every further
\* call returns no element and leaves the length at 0.
C7_LenIsRemaining ==
    pc \in {"iterating", "panicked"} =>
        /\ IndexSizeHint(it) = Len(bytes) - Len(yielded)
        /\ IndexSizeHint(it) >= 0
        /\ (itLast.call # "none" /\ itLast.len = 0) =>
             (itLast.ret = None /\ IndexSizeHint(it) = 0)
        /\ (itLast.call # "none" /\ itLast.len > 0) =>
             (itLast.ret # None /\ IndexSizeHint(it) = itLast.len - 1)

\* a reader drained from both ends and then called twice more
C7_Witness ==
    /\ pc = "iterating" /\ ~itMut
    /\ Len(bytes) = 3 /\ yielded = <<0, 2, 1>>
    /\ noneCalls = 2
    /\ itLast.call = "next_back" /\ itLast.ret = None

----------------------------------------------------------------------------
(* C8 *)

\* C8: for 0 <= count <= N rotl_bytes(count) completes and rotates the
\* logical sequence left by count: logical byte i is the old logical byte
\* (i + count) mod N; physically a left rotation when the flag is false and a
\* right rotation when it is true.
C8_RotlRotatesLogicalLeft ==
    (lastOp = "rotl_bytes" /\ lastArg <= Len(preBytes)) =>
        LET N == Len(preBytes)
            count == lastArg
        IN  /\ pc = "ready"
            /\ Len(bytes) = N
            /\ rev = preRev
            /\ \A i \in 0..(N - 1) :
                 /\ LogicalAt(bytes, rev, i) = LogicalAt(preBytes, preRev, (i + count) % N)
                 /\ ~rev => bytes[i + 1] = preBytes[((i + count) % N) + 1]
                 /\ rev => bytes[((i + count) % N) + 1] = preBytes[i + 1]

\* a reversed 3-byte view rotated by one
C8_Witness ==
    /\ lastOp = "rotl_bytes" /\ lastArg = 1
    /\ preRev
    /\ preBytes = <<1, 150, 0>>
    /\ bytes = <<0, 1, 150>>

----------------------------------------------------------------------------
(* C9 *)

\* C9: reverse_byte_endianness mirrors the physical buffer (byte i becomes
\* the old byte N-1-i, the middle byte of an odd length stays), applying it
\* again restores the original, and the flag and the length are unchanged.
C9_ReverseMirrors ==
    lastOp = "reverse_byte_endianness" =>
        LET N == Len(preBytes)
        IN  /\ Len(bytes) = N
            /\ rev = preRev
            /\ \A i \in 0..(N - 1) : bytes[i + 1] = preBytes[(N - 1 - i) + 1]
            /\ N % 2 = 1 => bytes[(N \div 2) + 1] = preBytes[(N \div 2) + 1]
            /\ ReverseBytes(bytes) = preBytes

\* an asymmetric odd-length buffer, mirrored
C9_Witness ==
    /\ lastOp = "reverse_byte_endianness"
    /\ preBytes = <<1, 150, 0>>
    /\ bytes = <<0, 150, 1>>

----------------------------------------------------------------------------
(* C10 *)

\* C10 as stated: in `view <<= rhs` with byte_part > 0 the zeroing step
\* zeroes the last byte_part positions of the logical sequence and no other.
C10_ZeroesLeastSignificant ==
    (pc = "shl_rotate" /\ shifted_out_bytes > 0) =>
        \A i \in 0..(Len(bytes) - 1) :
            LogicalAt(bytes, rev, i) =
                IF i >= Len(bytes) - shifted_out_bytes THEN 0
                ELSE LogicalAt(midBytes, rev, i)

\* C10 amended: the zeroing step zeroes the first byte_part positions of the
\* logical sequence (the most-significant bytes, which the rotation that
\* follows moves to the least-significant end) and no other byte.
C10_ZeroesMostSignificant ==
    (pc = "shl_rotate" /\ shifted_out_bytes > 0) =>
        /\ Len(bytes) = Len(midBytes)
        /\ \A i \in 0..(Len(bytes) - 1) :
             LogicalAt(bytes, rev, i) =
                IF i < shifted_out_bytes THEN 0
                ELSE LogicalAt(midBytes, rev, i)

\* a reversed view between the zeroing step and the rotation of a 12-bit shift
C10_Witness ==
    /\ pc = "shl_rotate" /\ shifted_out_bytes = 1 /\ shift_per_byte = 4
    /\ rev
    /\ Len(bytes) = 3 /\ Len(midBytes) = 3
    /\ midBytes[3] # 0
    /\ bytes[3] = 0
    /\ bytes[1] # 0

====
